---- MODULE Spec2Model ----
(***************************************************************************)
(* Model of evosuite_providers/openai.py: the OpenAIProvider plugin        *)
(* adapter.  The state is the adapter's fields after construction; there   *)
(* is one action per public operation (metadata, validate_config,          *)
(* generate, activate, deactivate).  Python values are tagged records;     *)
(* Python strings are TLA+ strings, so len, slicing and concatenation are  *)
(* Len, SubSeq and \o.                                                     *)
(***************************************************************************)
EXTENDS Integers, Sequences, FiniteSets, TLC

\* ------------------------------------------------------------------ bounds
\* longest api_key / OPENAI_API_KEY string that is enumerated
MaxKeyLen == 12
\* longest prompt that is enumerated
MaxPromptLen == 52

\* ------------------------------------------------------- program constants
\* len(self.api_key) > 10
MinKeyLen == 10
\* prompt[:50]
PromptCut == 50
\* self.config.get("max_tokens", 1000)
DefaultMaxTokens == 1000

\* ------------------------------------------------------------ Python values
\* A value is a record [t, s, n]: t is the type tag, s the text of a str
\* (or of a float literal), n the number of an int/bool or the length of a
\* list.  Absent marks a key that is not in a mapping / a variable that is
\* not in the environment; it is never a value of a field.
Absent == [t |-> "absent", s |-> "", n |-> 0]
PyNone == [t |-> "None", s |-> "", n |-> 0]
StrV(s) == [t |-> "str", s |-> s, n |-> 0]
IntV(n) == [t |-> "int", s |-> "", n |-> n]
FloatV(s) == [t |-> "float", s |-> s, n |-> 0]
BoolV(b) == [t |-> "bool", s |-> "", n |-> IF b THEN 1 ELSE 0]
ListV(n) == [t |-> "list", s |-> "", n |-> n]

\* bool(v): Python truthiness, as used by `not v`, `a or b`, `if v:`
Truthy(v) ==
  CASE v.t = "None" -> FALSE
    [] v.t = "str" -> Len(v.s) > 0
    [] v.t = "int" -> v.n # 0
    [] v.t = "bool" -> v.n # 0
    [] v.t = "float" -> v.s # "0.0"
    [] v.t = "list" -> v.n > 0
    [] OTHER -> TRUE

\* a or b
PyOr(a, b) == IF Truthy(a) THEN a ELSE b

\* len(v): raises TypeError on a value that has no length
PyLen(v) ==
  CASE v.t = "str" -> [raises |-> FALSE, n |-> Len(v.s)]
    [] v.t = "list" -> [raises |-> FALSE, n |-> v.n]
    [] OTHER -> [raises |-> TRUE, n |-> 0]

\* str(v), as an f-string field formats it
PyStr(v) ==
  CASE v.t = "str" -> v.s
    [] v.t = "None" -> "None"
    [] v.t = "int" -> ToString(v.n)
    [] v.t = "bool" -> IF v.n # 0 THEN "True" ELSE "False"
    [] OTHER -> v.s

\* variant: the slice is one character short
Prefix_short(s, k) == SubSeq(s, 1, IF Len(s) < k - 1 THEN Len(s) ELSE k - 1)

\* s[:k]
Prefix(s, k) == SubSeq(s, 1, IF Len(s) < k THEN Len(s) ELSE k)

\* dict.get(key): None when the key is missing
DictGet(d, key) == IF d[key] = Absent THEN PyNone ELSE d[key]

\* dict.get(key, default)
DictGetDefault(d, key, default) == IF d[key] = Absent THEN default ELSE d[key]

\* os.getenv("OPENAI_API_KEY"): None when the variable is unset
GetEnv(e) == IF e = Absent THEN PyNone ELSE e

\* ------------------------------------------------------------ call outcomes
Return(v) == [kind |-> "return", val |-> v, err |-> "", msg |-> ""]
Raise(e, m) == [kind |-> "raise", val |-> PyNone, err |-> e, msg |-> m]

\* --------------------------------------------------------------- the inputs
RECURSIVE Rep(_, _)
Rep(c, n) == IF n = 0 THEN "" ELSE Rep(c, n - 1) \o c

KeyLens == {0, 1} \cup (MinKeyLen - 2 .. MaxKeyLen)

ApiKeyEntries ==
  {Absent, PyNone, IntV(0), IntV(12345), ListV(0), ListV(MinKeyLen + 1),
   StrV("sk-1234567890abcdef")}
    \cup {StrV(Rep("k", n)) : n \in KeyLens}

EnvValues == {Absent} \cup {StrV(Rep("e", n)) : n \in {0, MinKeyLen, MaxKeyLen}}

ModelEntries == {Absent, StrV("gpt-4")}

\* base_url, max_tokens and temperature are either all left out or all set
OtherEntries ==
  {[base_url |-> Absent, max_tokens |-> Absent, temperature |-> Absent],
   [base_url |-> StrV("http://localhost/v1"), max_tokens |-> IntV(16),
    temperature |-> FloatV("0.0")]}

Configs ==
  {[api_key |-> k, model |-> m, base_url |-> o.base_url,
    max_tokens |-> o.max_tokens, temperature |-> o.temperature] :
      k \in ApiKeyEntries, m \in ModelEntries, o \in OtherEntries}

PromptLens == {0, 1, 11} \cup (PromptCut - 2 .. MaxPromptLen)

Prompts ==
  {"Hello world"}
    \cup {Rep("a", n) : n \in PromptLens}
    \cup {Rep("a", n - 1) \o "b" : n \in PromptLens \ {0}}

\* the context mapping of generate / activate / deactivate: empty or not
Contexts == {ListV(0), ListV(1)}

\* ------------------------------------------------------------------- state
VARIABLES
  config,     \* self.config
  api_key,    \* self.api_key
  model,      \* self.model
  base_url,   \* self.base_url
  client,     \* self._client
  environ,    \* os.environ["OPENAI_API_KEY"] at construction, or Absent
  installed,  \* whether `import openai` would succeed in this process
  lifecycle,  \* history: the last lifecycle hook the host has called
  lastCall    \* history: the last call made on the adapter and its outcome

vars ==
  <<config, api_key, model, base_url, client, environ, installed, lifecycle,
    lastCall>>

fields == <<config, api_key, model, base_url, client>>

Call(op, prompt, out) == [op |-> op, prompt |-> prompt, out |-> out]

\* ------------------------------------------------------------ construction
\* variant: the environment variable takes precedence over the configuration
ResolveKey_envFirst(cfg, env) == PyOr(GetEnv(env), DictGet(cfg, "api_key"))

\* self.config.get("api_key") or os.getenv("OPENAI_API_KEY")
ResolveKey(cfg, env) == PyOr(DictGet(cfg, "api_key"), GetEnv(env))

\* OpenAIProvider.__init__: the fields of the new adapter
Construct(cfg, env) ==
  [config |-> cfg,
   api_key |-> ResolveKey(cfg, env),
   model |-> DictGetDefault(cfg, "model", StrV("gpt-3.5-turbo")),
   base_url |-> DictGetDefault(cfg, "base_url", StrV("https://api.openai.com/v1")),
   client |-> PyNone]

Init ==
  /\ environ \in EnvValues
  /\ installed \in BOOLEAN
  /\ \E cfg \in Configs :
       LET o == Construct(cfg, environ) IN
         /\ config = o.config
         /\ api_key = o.api_key
         /\ model = o.model
         /\ base_url = o.base_url
         /\ client = o.client
  /\ lifecycle = "Constructed"
  /\ lastCall = Call("__init__", "", Return(PyNone))

\* --------------------------------------------------------------- operations
\* the adapter object the methods receive as `self`
Self ==
  [config |-> config, api_key |-> api_key, model |-> model,
   base_url |-> base_url, client |-> client]

\* OpenAIProvider.metadata
metadata ==
  [name |-> "openai_provider",
   version |-> "0.2.0",
   description |-> "OpenAI LLM provider for text generation",
   author |-> "EvoSuite Team",
   provides |-> <<"provider.openai", "provider.llm">>,
   requires_core |-> ">=0.2,<0.3",
   required |-> <<"api_key">>]

Metadata ==
  /\ lastCall' = Call("metadata", "",
                      Return([t |-> "PluginMetadata", s |-> metadata.name, n |-> 0]))
  /\ UNCHANGED <<fields, environ, installed, lifecycle>>

\* variant: the threshold test is >= instead of >
validate_config_ge(self) ==
  IF ~Truthy(self.api_key)
    THEN Return(BoolV(FALSE))
    ELSE IF PyLen(self.api_key).raises
           THEN Return(BoolV(FALSE))
           ELSE Return(BoolV(PyLen(self.api_key).n >= MinKeyLen))

\* variant: the threshold is one character higher
validate_config_strict(self) ==
  IF ~Truthy(self.api_key)
    THEN Return(BoolV(FALSE))
    ELSE IF PyLen(self.api_key).raises
           THEN Return(BoolV(FALSE))
           ELSE Return(BoolV(PyLen(self.api_key).n > MinKeyLen + 1))

\* variant: the length check is not wrapped in try/except
validate_config_notry(self) ==
  IF ~Truthy(self.api_key)
    THEN Return(BoolV(FALSE))
    ELSE IF PyLen(self.api_key).raises
           THEN Raise("TypeError", "object has no len()")
           ELSE Return(BoolV(PyLen(self.api_key).n > MinKeyLen))

\* OpenAIProvider.validate_config: the outcome of the call
validate_config(self) ==
  IF ~Truthy(self.api_key)
    THEN Return(BoolV(FALSE))
    ELSE IF PyLen(self.api_key).raises
           THEN Return(BoolV(FALSE))                 \* except Exception
           ELSE Return(BoolV(PyLen(self.api_key).n > MinKeyLen))

ValidateConfig ==
  /\ lastCall' = Call("validate_config", "", validate_config(Self))
  /\ UNCHANGED <<fields, environ, installed, lifecycle>>

\* variant: the configuration is not validated before generating
generate_unchecked(self, prompt, context) ==
  Return(StrV("[OpenAI " \o PyStr(self.model)
                \o "] Generated response for prompt: "
                \o Prefix(prompt, PromptCut) \o "..."))

\* variant: generation is refused until activate has created the client
generate_activated(self, prompt, context) ==
  IF ~Truthy(self.client)
    THEN Raise("RuntimeError", "not activated")
    ELSE IF ~Truthy(validate_config(self).val)
      THEN Raise("ValueError", "Invalid OpenAI configuration")
      ELSE Return(StrV("[OpenAI " \o PyStr(self.model)
                         \o "] Generated response for prompt: "
                         \o Prefix(prompt, PromptCut) \o "..."))

\* OpenAIProvider.generate: the outcome of the call
generate(self, prompt, context) ==
  LET valid == validate_config(self) IN
    IF valid.kind = "raise"
      THEN valid                                     \* propagates from await
      ELSE IF ~Truthy(valid.val)
        THEN Raise("ValueError", "Invalid OpenAI configuration")
        ELSE LET max_tokens ==
                   DictGetDefault(self.config, "max_tokens", IntV(DefaultMaxTokens))
                 temperature ==
                   DictGetDefault(self.config, "temperature", FloatV("0.7"))
             IN Return(StrV("[OpenAI " \o PyStr(self.model)
                              \o "] Generated response for prompt: "
                              \o Prefix(prompt, PromptCut) \o "..."))

Generate ==
  \E prompt \in Prompts, context \in Contexts :
    /\ lastCall' = Call("generate", prompt, generate(Self, prompt, context))
    /\ UNCHANGED <<fields, environ, installed, lifecycle>>

\* variant: the import and the client construction are carried out
activate_real(self, inst, context) ==
  IF inst
    THEN [client |-> [t |-> "AsyncOpenAI", s |-> self.base_url.s, n |-> 0],
          out |-> Return(PyNone)]
    ELSE [client |-> self.client,
          out |-> Raise("RuntimeError",
                        "OpenAI package not installed. Run: pip install openai")]

\* OpenAIProvider.activate: the client handle after the call and the outcome.
\* The body of the try block is `pass` (the import and the assignment to
\* self._client are comments), so ImportError is never raised inside it,
\* whether or not the openai package can be imported.
activate(self, inst, context) == [client |-> self.client, out |-> Return(PyNone)]

Activate ==
  \E context \in Contexts :
    LET r == activate(Self, installed, context) IN
      /\ client' = r.client
      /\ lastCall' = Call("activate", "", r.out)
      /\ lifecycle' = IF r.out.kind = "return" THEN "Activated" ELSE lifecycle
      /\ UNCHANGED <<config, api_key, model, base_url, environ, installed>>

\* variant: the client is closed without testing that there is one
deactivate_unguarded(self, context) ==
  [client |-> PyNone,
   out |-> IF self.client = PyNone
             THEN Raise("AttributeError", "'NoneType' object has no attribute 'close'")
             ELSE Return(PyNone)]

\* OpenAIProvider.deactivate: the client handle after the call and the outcome
deactivate(self, context) ==
  [client |-> IF Truthy(self.client) THEN PyNone ELSE self.client,
   out |-> Return(PyNone)]

Deactivate ==
  \E context \in Contexts :
    LET r == deactivate(Self, context) IN
      /\ client' = r.client
      /\ lastCall' = Call("deactivate", "", r.out)
      /\ lifecycle' = IF r.out.kind = "return" THEN "Deactivated" ELSE lifecycle
      /\ UNCHANGED <<config, api_key, model, base_url, environ, installed>>

Next ==
  \/ Metadata
  \/ ValidateConfig
  \/ Generate
  \/ Activate
  \/ Deactivate

Spec == Init /\ [][Next]_vars

TypeOK ==
  /\ config \in Configs
  /\ environ \in EnvValues
  /\ installed \in BOOLEAN
  /\ lifecycle \in {"Constructed", "Activated", "Deactivated"}
  /\ lastCall.op \in {"__init__", "metadata", "validate_config", "generate",
                      "activate", "deactivate"}
  /\ lastCall.out.kind \in {"return", "raise"}
\* ------------------------------------------------------------------- claims
\* the api_key entry of the configuration is left out
KeyEntryAbsent == config.api_key = Absent

\* the api_key entry of the configuration is a string of exactly / at most /
\* more than so many characters
KeyEntryStr == config.api_key.t = "str"
KeyEntryLen == Len(config.api_key.s)
EnvIsLong == environ # Absent /\ Len(environ.s) > 10

ValidateReturned(b) ==
  /\ lastCall.op = "validate_config"
  /\ lastCall.out = Return(BoolV(b))

\* C1 (as stated): whenever the configuration's api_key is absent or a string
\* of at most 10 characters, validate_config returns false, whatever the
\* OPENAI_API_KEY environment variable held at construction.
C1_AsStated ==
  (lastCall.op = "validate_config"
     /\ (KeyEntryAbsent \/ (KeyEntryStr /\ KeyEntryLen <= 10)))
    => lastCall.out = Return(BoolV(FALSE))

\* C1 (amended): when the configuration's api_key is a non-empty string of at
\* most 10 characters, validate_config returns false whatever OPENAI_API_KEY
\* holds; when it is absent or the empty string, validate_config returns
\* false exactly when OPENAI_API_KEY is unset or holds at most 10 characters.
C1_ShortKeyInvalid ==
  lastCall.op = "validate_config" =>
    /\ (KeyEntryStr /\ KeyEntryLen >= 1 /\ KeyEntryLen <= 10)
         => lastCall.out = Return(BoolV(FALSE))
    /\ (KeyEntryAbsent \/ (KeyEntryStr /\ KeyEntryLen = 0))
         => lastCall.out = Return(BoolV(EnvIsLong))

\* a key of exactly 10 characters was rejected although the environment
\* holds a longer one
C1_Witness ==
  /\ ValidateReturned(FALSE)
  /\ KeyEntryStr /\ KeyEntryLen = 10
  /\ EnvIsLong

\* C2: whenever the configuration's api_key is a string of more than 10
\* characters, validate_config returns true, whatever the other entries and
\* the environment hold and whatever calls came before.
C2_LongKeyValid ==
  (lastCall.op = "validate_config" /\ KeyEntryStr /\ KeyEntryLen > 10)
    => lastCall.out = Return(BoolV(TRUE))

\* an 11-character key was accepted after the adapter had been deactivated,
\* with a short key in the environment
C2_Witness ==
  /\ ValidateReturned(TRUE)
  /\ KeyEntryStr /\ KeyEntryLen = 11
  /\ environ # Absent /\ ~EnvIsLong
  /\ lifecycle = "Deactivated"

\* C5 (as stated): the resolved key equals the configuration's api_key entry
\* whenever there is one, and the environment variable's value (absent when
\* unset) when there is none.
C5_AsStated ==
  /\ ~KeyEntryAbsent => api_key = config.api_key
  /\ KeyEntryAbsent => api_key = GetEnv(environ)

\* C5 (amended): the resolved key equals the configuration's api_key entry
\* whenever that entry is present and not empty (not None, "", 0 or an empty
\* container); otherwise it is the value of OPENAI_API_KEY, and it is absent
\* (None) when the variable is unset.  No operation changes the resolved key.
C5_KeyResolution ==
  /\ [](/\ (~KeyEntryAbsent /\ Truthy(config.api_key)) => api_key = config.api_key
        /\ (KeyEntryAbsent \/ ~Truthy(config.api_key))
             => api_key = (IF environ = Absent THEN PyNone ELSE environ))
  /\ [][api_key' = api_key /\ config' = config /\ environ' = environ]_vars

\* the configured key won over a different key in the environment and is
\* still the resolved key after generate, activate and deactivate
C5_Witness ==
  /\ KeyEntryStr /\ KeyEntryLen = 11
  /\ EnvIsLong
  /\ api_key = config.api_key /\ api_key # environ
  /\ lifecycle = "Deactivated"
  /\ lastCall.op = "generate"

\* C8: validate_config never raises: for every resolved key it returns a
\* boolean, it returns false when the length check faults, and it changes
\* no field of the adapter.
C8_ValidateNeverRaises ==
  /\ [](lastCall.op = "validate_config" =>
          /\ lastCall.out.kind = "return"
          /\ lastCall.out.val \in {BoolV(TRUE), BoolV(FALSE)}
          /\ api_key.t \notin {"str", "list"} => lastCall.out.val = BoolV(FALSE))
  /\ [][lastCall'.op = "validate_config" => UNCHANGED fields]_vars

\* validate_config returned false for a non-zero number used as the key
C8_Witness ==
  /\ ValidateReturned(FALSE)
  /\ api_key = IntV(12345)
\* the error generate raises on an invalid configuration
ConfigInvalid == Raise("ValueError", "Invalid OpenAI configuration")

\* C3: generate raises ValueError("Invalid OpenAI configuration") exactly
\* when validate_config in the same state returns false; it then returns no
\* text and changes no field.  With config {} and no environment variable,
\* validate_config returns false and generate raises the error.
C3_GenerateRequiresValid ==
  /\ [](/\ lastCall.op = "generate" =>
             /\ lastCall.out = ConfigInvalid
                  <=> validate_config(Self) = Return(BoolV(FALSE))
             /\ lastCall.out.kind = "raise" => lastCall.out = ConfigInvalid
             /\ lastCall.out = ConfigInvalid => lastCall.out.val = PyNone
        /\ (KeyEntryAbsent /\ environ = Absent) =>
             /\ lastCall.op = "validate_config"
                  => lastCall.out = Return(BoolV(FALSE))
             /\ lastCall.op = "generate" => lastCall.out = ConfigInvalid)
  /\ [][lastCall'.op = "generate" => UNCHANGED fields]_vars

\* generate raised the error on config {} with no environment variable
C3_Witness ==
  /\ lastCall.op = "generate"
  /\ lastCall.out = ConfigInvalid
  /\ KeyEntryAbsent /\ environ = Absent
  /\ config.model = Absent /\ config.base_url = Absent

\* the text generate is expected to return for the configured model and a
\* prompt
C4_Text(prompt) ==
  "[OpenAI "
    \o (IF config.model = Absent THEN "gpt-3.5-turbo" ELSE config.model.s)
    \o "] Generated response for prompt: "
    \o (IF Len(prompt) < 50 THEN prompt ELSE SubSeq(prompt, 1, 50))
    \o "..."

\* C4: when the configuration validates, generate returns exactly
\* "[OpenAI <model>] Generated response for prompt: <first 50 characters of
\* the prompt>...", with "gpt-3.5-turbo" as the model when none is
\* configured, independently of context, max_tokens, temperature and
\* base_url; {api_key: "sk-1234567890abcdef"} and "Hello world" give
\* "[OpenAI gpt-3.5-turbo] Generated response for prompt: Hello world...".
C4_GenerateText ==
  lastCall.op = "generate" =>
    /\ validate_config(Self) = Return(BoolV(TRUE))
         => lastCall.out = Return(StrV(C4_Text(lastCall.prompt)))
    /\ (/\ config.api_key = StrV("sk-1234567890abcdef")
        /\ config.model = Absent
        /\ lastCall.prompt = "Hello world")
         => lastCall.out.val.s
              = "[OpenAI gpt-3.5-turbo] Generated response for prompt: Hello world..."

\* generate returned the text for a 51-character prompt whose last character
\* differs from the first 50, with max_tokens, temperature and base_url set
C4_Witness ==
  /\ lastCall.op = "generate"
  /\ lastCall.out.kind = "return"
  /\ Len(lastCall.prompt) = 51
  /\ SubSeq(lastCall.prompt, 51, 51) = "b"
  /\ Len(lastCall.out.val.s) = Len(C4_Text("")) + 50
  /\ config.max_tokens # Absent

\* C6: deactivate is idempotent: it never raises and sets the client handle
\* to absent; called when there is no client handle it leaves every field
\* unchanged; called again right after a deactivate it leaves the state as
\* the first call left it.
C6_DeactivateIdempotent ==
  /\ [](lastCall.op = "deactivate" =>
          (lastCall.out = Return(PyNone) /\ client = PyNone))
  /\ [][lastCall'.op = "deactivate" =>
          /\ client = PyNone => UNCHANGED fields
          /\ lastCall.op = "deactivate" => UNCHANGED <<fields, lifecycle, lastCall>>
          /\ UNCHANGED <<config, api_key, model, base_url>>]_vars

\* deactivate was called on an adapter without a client handle
C6_Witness ==
  /\ lastCall.op = "deactivate"
  /\ lastCall.out = Return(PyNone)
  /\ lifecycle = "Deactivated"
  /\ client = PyNone

\* C7: the client handle is absent in every reachable state, in particular
\* after activate and after activate followed by deactivate.
C7_ClientAbsent == client = PyNone

\* activate has returned and the client handle is absent
C7_Witness ==
  /\ lastCall.op = "activate"
  /\ lastCall.out = Return(PyNone)
  /\ lifecycle = "Activated"
  /\ client = PyNone

\* the outcome generate has on the freshly constructed adapter
C9_Outcome(prompt) ==
  IF validate_config(Construct(config, environ)) = Return(BoolV(TRUE))
    THEN Return(StrV(C4_Text(prompt)))
    ELSE ConfigInvalid

\* C9: the outcome of generate depends only on the configuration, the
\* environment at construction and the prompt: it is the same before
\* activate, after activate and after deactivate, and it is never a
\* "not activated" error.
C9_GenerateAnyTime ==
  lastCall.op = "generate" =>
    /\ lastCall.out = C9_Outcome(lastCall.prompt)
    /\ lastCall.out.msg # "not activated"

\* generate returned text although the adapter had already been deactivated
C9_Witness ==
  /\ lastCall.op = "generate"
  /\ lastCall.out.kind = "return"
  /\ lifecycle = "Deactivated"

====
